---- MODULE Spec2Model ----
(***************************************************************************)
(* A model of the SonarCloud -> GitHub issue synchroniser                  *)
(* (sonarcloud_github_sync): the SyncEngine of sync.py together with the   *)
(* decision-bearing parts of its two clients.                              *)
(*                                                                         *)
(* Text.  A Python str is modelled as a sequence of letters.  A letter is  *)
(* either a single character or one of the fixed fragments the program     *)
(* writes into an issue body (each fragment starts with a character that   *)
(* is not in the key character class, so a fragment never takes part in a  *)
(* key run of the extraction regex).  `in` on strings is contiguous        *)
(* sub-sequence containment, "\n".join is concatenation with the newline   *)
(* letter, and re.search is a leftmost scan.                               *)
(***************************************************************************)
EXTENDS Integers, Sequences, FiniteSets, TLC

VARIABLES
    sonar,          \* SonarCloud: the project's issues with status OPEN, in API order
    github,         \* GitHub: every issue of the repository, in API list order
    pc,             \* position of the engine inside full_sync
    dry_run,        \* SyncEngine.dry_run of the pass being run
    sonar_issues,   \* local of sync_sonar_to_github (sync.py:45)
    github_issues,  \* local of the running loop (sync.py:107 and sync.py:147)
    idx,            \* loop index of the running loop (1-based, as enumerate(start=1))
    counts,         \* created_count, skipped_count, closed_count, marked_wont_fix
    calls,          \* the collaborator calls issued by the pass so far, in order
    pass,           \* number of passes started
    limit,          \* number of passes the scenario makes
    failures,       \* number of collaborator failures injected so far
    start,          \* the collaborators' data when the running pass started
    prev,           \* what the previous pass did and returned
    pf              \* the pure-function harness: a Finding, its body, the key read back

vars == <<sonar, github, pc, dry_run, sonar_issues, github_issues, idx, counts,
          calls, pass, limit, failures, start, prev, pf>>

engineVars == <<sonar, github, pc, dry_run, sonar_issues, github_issues, idx,
                counts, calls, pass, limit, failures, start, prev>>

-----------------------------------------------------------------------------
(* Bounds of the model *)

MaxKeyLen == 2

MaxFindings == 2

MaxItems == 2

MaxPasses == 2

MaxFailures == 1

-----------------------------------------------------------------------------
(* Letters and text helpers *)

NL == "\n"

\* [A-Za-z0-9_:-] of the extraction regex (sync.py:254)
KeyClass ==
    { "A","B","C","D","E","F","G","H","I","J","K","L","M",
      "N","O","P","Q","R","S","T","U","V","W","X","Y","Z",
      "a","b","c","d","e","f","g","h","i","j","k","l","m",
      "n","o","p","q","r","s","t","u","v","w","x","y","z",
      "0","1","2","3","4","5","6","7","8","9","_",":","-" }

MarkerPrefix == "**SonarCloud Issue:** "

Min(a, b) == IF a < b THEN a ELSE b

Max(a, b) == IF a < b THEN b ELSE a

\* needle in hay  (Python str.__contains__)
Contains(needle, hay) ==
    \E i \in 1..(Len(hay) - Len(needle) + 1) :
        \A j \in 1..Len(needle) : hay[i + j - 1] = needle[j]

\* sep.join(parts)
RECURSIVE Join(_, _)
Join(parts, sep) ==
    IF parts = <<>> THEN <<>>
    ELSE IF Len(parts) = 1 THEN parts[1]
    ELSE parts[1] \o sep \o Join(Tail(parts), sep)

\* list.insert(i, x): a negative i counts from the end, out-of-range i is clamped
ListInsert(list, i, x) ==
    LET n == Len(list)
        k == IF i < 0 THEN Max(n + i, 0) ELSE Min(i, n)
    IN  SubSeq(list, 1, k) \o <<x>> \o SubSeq(list, k + 1, n)

-----------------------------------------------------------------------------
(* SonarIssue (sonar_client.py:9-24) *)

\* a mutant of Url: the open= parameter is left out
UrlIssuesOnly(si) ==
    <<"h","t","t","p","s",":","//sonarcloud.io/project/issues?id=">> \o si.project
        \o <<"&issues=">> \o si.key

\* SonarIssue.url
Url(si) ==
    <<"h","t","t","p","s",":","//sonarcloud.io/project/issues?id=">> \o si.project
        \o <<"&issues=">> \o si.key \o <<"&open=">> \o si.key

-----------------------------------------------------------------------------
(* SyncEngine._create_github_issue_body and _extract_sonar_issue_key *)

\* a mutant of BodyPartsFixed: the link line carries the key, not SonarIssue.url
BodyPartsKeyLink(si) ==
    << <<MarkerPrefix>> \o si.key,
       <<"**Type:** ">> \o si.type,
       <<"**Severity:** ">> \o si.severity,
       <<"**Component:** ">> \o si.component,
       <<>>,
       <<"**Description:**">>,
       si.message,
       <<>>,
       <<"**SonarCloud Link:** ">> \o si.key,
       <<>>,
       <<"-","-","-">>,
       <<"*This issue was automatically created from SonarCloud*">> >>

BodyPartsFixed(si) ==
    << <<MarkerPrefix>> \o si.key,
       <<"**Type:** ">> \o si.type,
       <<"**Severity:** ">> \o si.severity,
       <<"**Component:** ">> \o si.component,
       <<>>,
       <<"**Description:**">>,
       si.message,
       <<>>,
       <<"**SonarCloud Link:** ">> \o Url(si),
       <<>>,
       <<"-","-","-">>,
       <<"*This issue was automatically created from SonarCloud*">> >>

TagsLine(si) == <<"**Tags:** ">> \o Join(si.tags, <<", ">>)

\* a mutant of BodyParts: the tags line is written also for an empty tag list
BodyPartsAlwaysTags(si) ==
    ListInsert(ListInsert(BodyPartsFixed(si), -3, TagsLine(si)), -3, <<>>)

\* a mutant of BodyParts: the tags line and its blank line go before the link
BodyPartsTagsBeforeLink(si) ==
    IF si.tags # <<>>
    THEN ListInsert(ListInsert(BodyPartsFixed(si), -4, TagsLine(si)), -4, <<>>)
    ELSE BodyPartsFixed(si)

\* a mutant of BodyParts: the insertion point is two lines from the end
BodyPartsTagsAtFooter(si) ==
    IF si.tags # <<>>
    THEN ListInsert(ListInsert(BodyPartsFixed(si), -2, TagsLine(si)), -2, <<>>)
    ELSE BodyPartsFixed(si)

BodyParts(si) ==
    IF si.tags # <<>>
    THEN ListInsert(ListInsert(BodyPartsFixed(si), -3, TagsLine(si)), -3, <<>>)
    ELSE BodyPartsFixed(si)

CreateGithubIssueBody(si) == Join(BodyParts(si), <<NL>>)

\* Optional[str]
None == [some |-> FALSE, val |-> <<>>]

Some(v) == [some |-> TRUE, val |-> v]

\* a mutant of MatchStarts: the prefix alone is taken for a match
MatchStartsAnyPrefix(body) ==
    { i \in 1..(Len(body) - 1) : body[i] = MarkerPrefix }

\* the positions where the regex matches: the prefix followed by at least one
\* character of the class
MatchStarts(body) ==
    { i \in 1..(Len(body) - 1) : body[i] = MarkerPrefix /\ body[i + 1] \in KeyClass }

\* a mutant of RunEnd: the class is matched once, without the +
RunEndFirst(body, i) == i

\* the end of the maximal run of class characters that starts at position i
RECURSIVE RunEnd(_, _)
RunEnd(body, i) ==
    IF i < Len(body) /\ body[i + 1] \in KeyClass THEN RunEnd(body, i + 1) ELSE i

ExtractSonarIssueKey(body) ==
    IF MatchStarts(body) = {} THEN None
    ELSE LET i == CHOOSE m \in MatchStarts(body) : \A o \in MatchStarts(body) : m <= o
         IN  Some(SubSeq(body, i + 1, RunEnd(body, i + 1)))

-----------------------------------------------------------------------------
(* Config (config.py:8-15) and the data the collaborators hold *)

ProjectKey == <<"P">>

BUG == <<"B","U","G">>

\* Config.issue_types
IssueTypes == { BUG, <<"V","U","L","N","E","R","A","B","I","L","I","T","Y">>,
                <<"C","O","D","E","_","S","M","E","L","L">> }

SonarIssue(key, message, tags) ==
    [ key |-> key, type |-> BUG, severity |-> <<"M","A","J","O","R">>,
      status |-> "OPEN", message |-> message, component |-> <<"s","r","c">>,
      project |-> ProjectKey, tags |-> tags ]

IssueA == SonarIssue(<<"A">>, <<"m">>, <<>>)

\* a Finding with two tags
IssueB == SonarIssue(<<"B">>, <<"m">>, << <<"t">>, <<"u">> >>)

\* a key with a character outside the class of the extraction regex
IssueDot == SonarIssue(<<"A",".","B">>, <<"m">>, <<>>)

\* a message that quotes the link of another issue
IssueRef == SonarIssue(<<"C">>, <<"s","e","e"," ">> \o Url(IssueA), <<>>)

FindingPool == { IssueA, IssueB, IssueDot, IssueRef }

\* GitHub's state_reason is a string or null
NullReason == "null"

\* the body of an item as written by hand or by an older version: the key line
\* without the link (as in tests/test_integration.py:137-149)
KeyOnlyBody(key) == <<MarkerPrefix>> \o key \o <<NL, "B","o","d","y">>

\* a body without the key line
MalformedBody == <<"S","o","m","e">>

\* a body whose key line and link name different issues
MixedBody == <<MarkerPrefix>> \o IssueB.key \o <<NL>> \o Url(IssueA)

Item(body, state, state_reason) ==
    [ title |-> <<"t">>, body |-> body, state |-> state, state_reason |-> state_reason,
      labels |-> << <<"sonarcloud">> >> ]

\* the items a repository may hold before a pass; the last has a null body
ItemPool ==
    { Item(Some(CreateGithubIssueBody(IssueA)), "open", NullReason),
      Item(Some(CreateGithubIssueBody(IssueA)), "closed", "completed"),
      Item(Some(CreateGithubIssueBody(IssueA)), "closed", "not_planned"),
      Item(Some(CreateGithubIssueBody(IssueB)), "open", NullReason),
      Item(Some(CreateGithubIssueBody(IssueB)), "closed", "not_planned"),
      Item(Some(KeyOnlyBody(IssueA.key)), "open", NullReason),
      Item(Some(KeyOnlyBody(IssueA.key)), "closed", "not_planned"),
      Item(Some(MalformedBody), "open", NullReason),
      Item(Some(MalformedBody), "closed", "not_planned"),
      Item(Some(MixedBody), "open", NullReason),
      Item(None, "open", NullReason) }

\* the items of the scenarios that run a second pass
RerunItemPool ==
    { Item(Some(CreateGithubIssueBody(IssueA)), "open", NullReason),
      Item(Some(CreateGithubIssueBody(IssueA)), "closed", "not_planned"),
      Item(Some(KeyOnlyBody(IssueB.key)), "open", NullReason),
      Item(Some(KeyOnlyBody(IssueB.key)), "closed", "not_planned"),
      Item(Some(MalformedBody), "closed", "not_planned") }

SeqsUpTo(S, n) == UNION { [1..k -> S] : k \in 0..n }

\* GitHub lists issues newest first; numbers are given in creation order
Numbered(items) ==
    [ p \in 1..Len(items) |->
        [ number |-> Len(items) - p + 1, title |-> items[p].title,
          body |-> items[p].body, state |-> items[p].state,
          state_reason |-> items[p].state_reason, labels |-> items[p].labels ] ]

-----------------------------------------------------------------------------
(* SonarClient *)

\* the page size of the single request (sonar_client.py:46)
SonarPageSize == 500

\* SonarClient.get_issues: one request, statuses=OPEN, types=issue_types
GetIssues(project) ==
    LET match == SelectSeq(project, LAMBDA si : si.type \in IssueTypes)
    IN  SubSeq(match, 1, Min(Len(match), SonarPageSize))

\* the effect of the wontfix transition on SonarCloud: the issue leaves OPEN
WontFixed(project, key) == SelectSeq(project, LAMBDA si : si.key # key)

-----------------------------------------------------------------------------
(* GitHubClient *)

\* per_page of get_issues_with_label (github_client.py:43)
PerPage == 100

\* the repository's issues carrying the label, as the API filters them
Labeled(repo, label) ==
    SelectSeq(repo, LAMBDA it : \E l \in 1..Len(it.labels) : it.labels[l] = label)

\* the response to GET /issues with per_page and page
Page(all, page) ==
    SubSeq(all, (page - 1) * PerPage + 1, Min(page * PerPage, Len(all)))

\* a mutant of ShortPage: a full page ends the loop as well
ShortOrFullPage(data) == Len(data) <= PerPage

\* len(data) < 100 (github_client.py:71)
ShortPage(data) == Len(data) < PerPage

\* the page loop of get_issues_with_label
RECURSIVE FetchPages(_, _)
FetchPages(all, page) ==
    LET data == Page(all, page)
    IN  IF data = <<>> THEN <<>>
        ELSE IF ShortPage(data) THEN data
        ELSE data \o FetchPages(all, page + 1)

\* GitHubIssue(...) of github_client.py:61-68: body is a str; a null body is
\* rejected by the model class and the fetch raises
Parses(repo, label) ==
    LET data == Labeled(repo, label)
    IN  { p \in 1..Len(data) : ~data[p].body.some } = {}

GitHubIssue(data) ==
    [ number |-> data.number, title |-> data.title, body |-> data.body.val,
      state |-> data.state, labels |-> data.labels, state_reason |-> data.state_reason ]

\* a mutant of GetIssuesWithLabel: the request asks for open issues only
GetOpenIssuesWithLabel(repo, label) ==
    LET got == FetchPages(SelectSeq(Labeled(repo, label), LAMBDA it : it.state = "open"), 1)
    IN  [ p \in 1..Len(got) |-> GitHubIssue(got[p]) ]

\* "state": "all" (github_client.py:42)
GetIssuesWithLabel(repo, label) ==
    LET got == FetchPages(Labeled(repo, label), 1)
    IN  [ p \in 1..Len(got) |-> GitHubIssue(got[p]) ]

\* a mutant of FirstWithLink: only open issues are scanned
FirstOpenWithLink(issues, url) ==
    LET hits == { p \in 1..Len(issues) :
                    issues[p].state = "open" /\ Contains(url, issues[p].body) }
    IN  IF hits = {} THEN 0 ELSE CHOOSE p \in hits : \A q \in hits : p <= q

\* a mutant of FirstWithLink: the scan keeps the last issue that holds the link
LastWithLink(issues, url) ==
    LET hits == { p \in 1..Len(issues) : Contains(url, issues[p].body) }
    IN  IF hits = {} THEN 0 ELSE CHOOSE p \in hits : \A q \in hits : p >= q

\* the scan of issue_exists_with_sonar_link over an already fetched list
FirstWithLink(issues, url) ==
    LET hits == { p \in 1..Len(issues) : Contains(url, issues[p].body) }
    IN  IF hits = {} THEN 0 ELSE CHOOSE p \in hits : \A q \in hits : p <= q

\* a mutant of IssueExistsWithSonarLink: the scan never finds an issue
IssueExistsNowhere(repo, url) == None

IssueExistsWithSonarLink(repo, url) ==
    LET issues == GetIssuesWithLabel(repo, <<"sonarcloud">>)
        p == FirstWithLink(issues, url)
    IN  IF p = 0 THEN None ELSE Some(issues[p])

\* a mutant of Created: the new issue takes the place of the newest one
CreatedInPlace(repo, title, body, labels) ==
    << [ number |-> Len(repo) + 1, title |-> title, body |-> Some(body),
         state |-> "open", state_reason |-> NullReason, labels |-> labels ] >>
        \o SubSeq(repo, 2, Len(repo))

\* the effect of POST /issues on GitHub
Created(repo, title, body, labels) ==
    << [ number |-> Len(repo) + 1, title |-> title, body |-> Some(body),
         state |-> "open", state_reason |-> NullReason, labels |-> labels ] >> \o repo

\* a mutant of Closed: the request leaves the issue as it is
ClosedInVain(repo, number) == repo

\* a mutant of Closed: the issue is closed as not planned
ClosedNotPlanned(repo, number) ==
    [ p \in 1..Len(repo) |->
        IF repo[p].number = number
        THEN [ repo[p] EXCEPT !.state = "closed", !.state_reason = "not_planned" ]
        ELSE repo[p] ]

\* the effect of PATCH {"state": "closed"} on GitHub
Closed(repo, number) ==
    [ p \in 1..Len(repo) |->
        IF repo[p].number = number
        THEN [ repo[p] EXCEPT !.state = "closed", !.state_reason = "completed" ]
        ELSE repo[p] ]

-----------------------------------------------------------------------------
(* The state of the engine *)

\* a mutant of ZeroCounts: the skipped counter starts at one
OneSkipped == [ created |-> 0, skipped |-> 1, closed |-> 0, marked_wont_fix |-> 0 ]

\* the counters at the start of each of the two syncs (sync.py:54-56, 149)
ZeroCounts == [ created |-> 0, skipped |-> 0, closed |-> 0, marked_wont_fix |-> 0 ]

\* one collaborator call: n is the issue number (close) or the position of the
\* Finding in sonar_issues (lookup, create), text the key, link or body sent
Call(op, n, text, title, labels, ok) ==
    [ op |-> op, n |-> n, text |-> text, title |-> title, labels |-> labels, ok |-> ok ]

Read(op, ok) == Call(op, 0, <<>>, <<>>, <<>>, ok)

NoPass ==
    [ ran |-> FALSE, dry_run |-> FALSE, outcome |-> "none", counts |-> ZeroCounts,
      calls |-> <<>>, sonar_issues |-> <<>>, sonar0 |-> <<>>, github0 |-> <<>> ]

NoFinding == [ stage |-> "off", si |-> IssueA, body |-> <<>>, key |-> None ]

Init ==
    /\ sonar \in SeqsUpTo(FindingPool, MaxFindings)
    /\ \/ /\ limit = 1
          /\ github \in { Numbered(items) : items \in SeqsUpTo(ItemPool, MaxItems) }
       \/ /\ limit = MaxPasses
          /\ github \in { Numbered(items) : items \in SeqsUpTo(RerunItemPool, MaxItems) }
    /\ pc = "idle"
    /\ dry_run = FALSE
    /\ sonar_issues = <<>>
    /\ github_issues = <<>>
    /\ idx = 0
    /\ counts = ZeroCounts
    /\ calls = <<>>
    /\ pass = 0
    /\ failures = 0
    /\ start = [ sonar0 |-> <<>>, github0 |-> <<>> ]
    /\ prev = NoPass
    /\ pf = NoFinding

MayFail == failures < MaxFailures

\* a mutant of DryRun: the flag is not consulted
DryRunIgnored == FALSE

\* SyncEngine.dry_run as the three branches read it (sync.py:84, 120, 160)
DryRun == dry_run

\* mutants of Caught: the try/except around create_issue is missing; only the
\* one around create_issue is there
CaughtCloseResolve(op) == op \in {"close_issue", "resolve_issue_as_wont_fix"}

CaughtCreateOnly(op) == op = "create_issue"

\* a mutant of Caught: every collaborator call is made inside try/except
CaughtEverything(op) == TRUE

\* the collaborator calls made inside try/except Exception (sync.py:90-103,
\* 124-132, 164-173); every other call is made bare
Caught(op) == op \in {"create_issue", "close_issue", "resolve_issue_as_wont_fix"}

\* the loop goes on with the next element
Continue ==
    /\ pc' = pc
    /\ idx' = idx + 1

\* a mutant of Fails: after a caught error the same element is tried again
FailsAndRetries(before, call) ==
    /\ calls' = Append(before, call)
    /\ failures' = failures + 1
    /\ IF Caught(call.op) THEN pc' = pc /\ idx' = idx ELSE pc' = "raised" /\ idx' = idx

\* a mutant of Fails: an error that is not caught ends the loop it occurs in and
\* the pass goes on with what follows the loop
FailsLoopOnly(before, call) ==
    /\ calls' = Append(before, call)
    /\ failures' = failures + 1
    /\ IF Caught(call.op) THEN Continue
                          ELSE pc' = pc /\ idx' = MaxFindings + MaxItems + 1

\* a collaborator call raises: a caught error is logged and the loop goes on, any
\* other leaves full_sync without a result and ends the scenario (the command
\* line exits with status 1, cli.py:106-109)
Fails(before, call) ==
    /\ calls' = Append(before, call)
    /\ failures' = failures + 1
    /\ IF Caught(call.op) THEN Continue ELSE pc' = "raised" /\ idx' = idx

-----------------------------------------------------------------------------
(* SyncEngine.full_sync up to validate_credentials (sync.py:183-195, 24-37) *)

Enter(d) ==
    /\ pc \in {"idle", "done"}
    /\ pass < limit
    /\ pass' = pass + 1
    /\ dry_run' = d
    /\ start' = [ sonar0 |-> sonar, github0 |-> github ]
    /\ prev' = IF pc = "idle" THEN NoPass
               ELSE [ ran |-> TRUE, dry_run |-> dry_run, outcome |-> pc,
                      counts |-> counts, calls |-> calls, sonar_issues |-> sonar_issues,
                      sonar0 |-> start.sonar0, github0 |-> start.github0 ]
    /\ sonar_issues' = <<>>
    /\ github_issues' = <<>>
    /\ idx' = 0
    /\ counts' = ZeroCounts
    /\ UNCHANGED <<sonar, github, limit, pf>>

\* a mutant of ValidateCredentials: the result of test_connection is not tested
ValidateCredentialsUnchecked ==
    \E d \in BOOLEAN :
        /\ Enter(d)
        /\ pc' = "forward"
        /\ \/ /\ calls' = << Read("sonar.test_connection", TRUE),
                             Read("github.test_connection", TRUE) >>
              /\ UNCHANGED failures
           \/ /\ MayFail
              /\ calls' = << Read("sonar.test_connection", FALSE),
                             Read("github.test_connection", TRUE) >>
              /\ failures' = failures + 1
           \/ /\ MayFail
              /\ calls' = << Read("sonar.test_connection", TRUE),
                             Read("github.test_connection", FALSE) >>
              /\ failures' = failures + 1

ValidateCredentials ==
    \E d \in BOOLEAN :
        /\ Enter(d)
        /\ \/ /\ pc' = "forward"
              /\ calls' = << Read("sonar.test_connection", TRUE),
                             Read("github.test_connection", TRUE) >>
              /\ UNCHANGED failures
           \/ \* sync.py:27-29
              /\ MayFail
              /\ pc' = "raised"
              /\ calls' = << Read("sonar.test_connection", FALSE) >>
              /\ failures' = failures + 1
           \/ \* sync.py:32-34
              /\ MayFail
              /\ pc' = "raised"
              /\ calls' = << Read("sonar.test_connection", TRUE),
                             Read("github.test_connection", FALSE) >>
              /\ failures' = failures + 1

-----------------------------------------------------------------------------
(* SyncEngine.sync_sonar_to_github (sync.py:39-140) *)

\* sync.py:45-60
FetchSonarIssues ==
    /\ pc = "forward"
    /\ \/ /\ sonar_issues' = GetIssues(sonar)
          /\ idx' = 1
          /\ pc' = "create"
          /\ calls' = Append(calls, Read("get_issues", TRUE))
          /\ UNCHANGED failures
       \/ /\ MayFail
          /\ Fails(calls, Read("get_issues", FALSE))
          /\ UNCHANGED sonar_issues
    /\ UNCHANGED <<sonar, github, dry_run, github_issues, counts, pass, limit, start,
                   prev, pf>>

Lookup(i, ok) == Call("issue_exists_with_sonar_link", i, <<>>, <<>>, <<>>, ok)

\* a mutant of CreateCall: the loop takes the Findings from the end of the list
CreateCallFromEnd(si, i, ok) ==
    LET other == sonar_issues[Len(sonar_issues) - i + 1]
    IN  Call("create_issue", i, CreateGithubIssueBody(other), other.message,
             << <<"sonarcloud">> >> \o other.tags, ok)

\* sync.py:76-78 and 92-97
\* a mutant of CreateCall: the tags come before the marker label
CreateCallTagsFirst(si, i, ok) ==
    Call("create_issue", i, CreateGithubIssueBody(si), si.message,
         si.tags \o << <<"sonarcloud">> >>, ok)

CreateCall(si, i, ok) ==
    Call("create_issue", i, CreateGithubIssueBody(si), si.message,
         << <<"sonarcloud">> >> \o si.tags, ok)

\* one iteration of the loop of sync.py:61-103
ProcessSonarIssue ==
    /\ pc = "create"
    /\ idx <= Len(sonar_issues)
    /\ LET si == sonar_issues[idx]
           readable == Parses(github, <<"sonarcloud">>)
           existing == IssueExistsWithSonarLink(github, Url(si))
           request == CreateCall(si, idx, TRUE)
       IN  \/ \* the fetch inside the lookup raises
              /\ MayFail \/ ~readable
              /\ Fails(calls, Lookup(idx, FALSE))
              /\ UNCHANGED <<github, counts>>
           \/ \* sync.py:69-73
              /\ readable
              /\ existing.some
              /\ counts' = [counts EXCEPT !.skipped = @ + 1]
              /\ calls' = Append(calls, Lookup(idx, TRUE))
              /\ Continue
              /\ UNCHANGED <<github, failures>>
           \/ \* sync.py:84-88
              /\ readable
              /\ ~existing.some
              /\ DryRun
              /\ counts' = [counts EXCEPT !.created = @ + 1]
              /\ calls' = Append(calls, Lookup(idx, TRUE))
              /\ Continue
              /\ UNCHANGED <<github, failures>>
           \/ \* sync.py:90-100
              /\ readable
              /\ ~existing.some
              /\ ~DryRun
              /\ github' = Created(github, request.title, request.text, request.labels)
              /\ counts' = [counts EXCEPT !.created = @ + 1]
              /\ calls' = calls \o << Lookup(idx, TRUE), request >>
              /\ Continue
              /\ UNCHANGED failures
           \/ \* sync.py:101-103
              /\ readable
              /\ ~existing.some
              /\ ~DryRun
              /\ MayFail
              /\ Fails(Append(calls, Lookup(idx, TRUE)), CreateCall(si, idx, FALSE))
              /\ UNCHANGED <<github, counts>>
    /\ UNCHANGED <<sonar, dry_run, sonar_issues, github_issues, pass, limit, start,
                   prev, pf>>

\* sync.py:107-110
FetchForClosure ==
    /\ pc = "create"
    /\ idx > Len(sonar_issues)
    /\ \/ /\ Parses(github, <<"sonarcloud">>)
          /\ github_issues' = GetIssuesWithLabel(github, <<"sonarcloud">>)
          /\ idx' = 1
          /\ pc' = "close"
          /\ calls' = Append(calls, Read("get_issues_with_label", TRUE))
          /\ UNCHANGED failures
       \/ /\ MayFail \/ ~Parses(github, <<"sonarcloud">>)
          /\ Fails(calls, Read("get_issues_with_label", FALSE))
          /\ UNCHANGED github_issues
    /\ UNCHANGED <<sonar, github, dry_run, sonar_issues, counts, pass, limit, start,
                   prev, pf>>

\* a mutant of HasKey: the extracted key is used without the test
HasKeyAlways(key) == TRUE

\* sync.py:116 and 159: `if sonar_issue_key:`
HasKey(key) == key.some

\* a mutant of StillOpen: only the last fetched issue is compared
StillOpenLast(key) == sonar_issues # <<>> /\ sonar_issues[Len(sonar_issues)].key = key

\* a mutant of StillOpen: the key is looked for in an empty set
StillOpenNever(key) == FALSE

\* a mutant of StillOpen: only the first fetched issue is compared
StillOpenFirst(key) == sonar_issues # <<>> /\ sonar_issues[1].key = key

\* sync.py:118
StillOpen(key) == \E i \in 1..Len(sonar_issues) : sonar_issues[i].key = key

CloseCall(number, ok) == Call("close_issue", number, <<>>, <<>>, <<>>, ok)

\* one iteration of the loop of sync.py:111-134
ProcessOpenIssue ==
    /\ pc = "close"
    /\ idx <= Len(github_issues)
    /\ LET github_issue == github_issues[idx]
           sonar_issue_key == ExtractSonarIssueKey(github_issue.body)
       IN  \/ \* sync.py:112: not open
              /\ github_issue.state # "open"
              /\ Continue
              /\ UNCHANGED <<github, counts, calls, failures>>
           \/ \* sync.py:133-134
              /\ github_issue.state = "open"
              /\ ~HasKey(sonar_issue_key)
              /\ Continue
              /\ UNCHANGED <<github, counts, calls, failures>>
           \/ \* sync.py:118: the issue is still open in SonarCloud
              /\ github_issue.state = "open"
              /\ HasKey(sonar_issue_key)
              /\ StillOpen(sonar_issue_key.val)
              /\ Continue
              /\ UNCHANGED <<github, counts, calls, failures>>
           \/ \* sync.py:120-122
              /\ github_issue.state = "open"
              /\ HasKey(sonar_issue_key)
              /\ ~StillOpen(sonar_issue_key.val)
              /\ DryRun
              /\ counts' = [counts EXCEPT !.closed = @ + 1]
              /\ Continue
              /\ UNCHANGED <<github, calls, failures>>
           \/ \* sync.py:124-129
              /\ github_issue.state = "open"
              /\ HasKey(sonar_issue_key)
              /\ ~StillOpen(sonar_issue_key.val)
              /\ ~DryRun
              /\ github' = Closed(github, github_issue.number)
              /\ counts' = [counts EXCEPT !.closed = @ + 1]
              /\ calls' = Append(calls, CloseCall(github_issue.number, TRUE))
              /\ Continue
              /\ UNCHANGED failures
           \/ \* sync.py:130-132
              /\ github_issue.state = "open"
              /\ HasKey(sonar_issue_key)
              /\ ~StillOpen(sonar_issue_key.val)
              /\ ~DryRun
              /\ MayFail
              /\ Fails(calls, CloseCall(github_issue.number, FALSE))
              /\ UNCHANGED <<github, counts>>
    /\ UNCHANGED <<sonar, dry_run, sonar_issues, github_issues, pass, limit, start,
                   prev, pf>>

-----------------------------------------------------------------------------
(* SyncEngine.sync_github_to_sonar (sync.py:142-181) *)

\* a mutant of FetchForReverse: reverse sync is handed the list of forward sync
FetchForReverseReusing ==
    /\ pc = "close"
    /\ idx > Len(github_issues)
    /\ idx' = 1
    /\ pc' = "reverse"
    /\ UNCHANGED <<sonar, github, dry_run, sonar_issues, github_issues, counts, calls,
                   pass, limit, failures, start, prev, pf>>

\* sync.py:136-140, 199-203, 147-151
FetchForReverse ==
    /\ pc = "close"
    /\ idx > Len(github_issues)
    /\ \/ /\ Parses(github, <<"sonarcloud">>)
          /\ github_issues' = GetIssuesWithLabel(github, <<"sonarcloud">>)
          /\ idx' = 1
          /\ pc' = "reverse"
          /\ calls' = Append(calls, Read("get_issues_with_label", TRUE))
          /\ UNCHANGED failures
       \/ /\ MayFail \/ ~Parses(github, <<"sonarcloud">>)
          /\ Fails(calls, Read("get_issues_with_label", FALSE))
          /\ UNCHANGED github_issues
    /\ UNCHANGED <<sonar, github, dry_run, sonar_issues, counts, pass, limit, start,
                   prev, pf>>

\* a mutant of NotPlanned: only the first pass propagates closures
NotPlannedFirstPass(github_issue) ==
    github_issue.state = "closed" /\ github_issue.state_reason = "not_planned" /\ pass = 1

\* a mutant of NotPlanned: the closure reason is not compared
AnyClosed(github_issue) == github_issue.state = "closed"

\* sync.py:155
NotPlanned(github_issue) ==
    github_issue.state = "closed" /\ github_issue.state_reason = "not_planned"

\* n is the number of the item the key was read from
ResolveCall(key, n, ok) == Call("resolve_issue_as_wont_fix", n, key, <<>>, <<>>, ok)

\* one iteration of the loop of sync.py:152-177
ProcessClosedIssue ==
    /\ pc = "reverse"
    /\ idx <= Len(github_issues)
    /\ LET github_issue == github_issues[idx]
           sonar_issue_key == ExtractSonarIssueKey(github_issue.body)
       IN  \/ \* sync.py:155, 176-177: open, or closed for another reason
              /\ ~NotPlanned(github_issue)
              /\ Continue
              /\ UNCHANGED <<sonar, counts, calls, failures>>
           \/ \* sync.py:174-175
              /\ NotPlanned(github_issue)
              /\ ~HasKey(sonar_issue_key)
              /\ Continue
              /\ UNCHANGED <<sonar, counts, calls, failures>>
           \/ \* sync.py:160-162
              /\ NotPlanned(github_issue)
              /\ HasKey(sonar_issue_key)
              /\ DryRun
              /\ counts' = [counts EXCEPT !.marked_wont_fix = @ + 1]
              /\ Continue
              /\ UNCHANGED <<sonar, calls, failures>>
           \/ \* sync.py:164-170
              /\ NotPlanned(github_issue)
              /\ HasKey(sonar_issue_key)
              /\ ~DryRun
              /\ sonar' = WontFixed(sonar, sonar_issue_key.val)
              /\ counts' = [counts EXCEPT !.marked_wont_fix = @ + 1]
              /\ calls' = Append(calls, ResolveCall(sonar_issue_key.val,
                                                    github_issue.number, TRUE))
              /\ Continue
              /\ UNCHANGED failures
           \/ \* sync.py:171-173
              /\ NotPlanned(github_issue)
              /\ HasKey(sonar_issue_key)
              /\ ~DryRun
              /\ MayFail
              /\ Fails(calls, ResolveCall(sonar_issue_key.val, github_issue.number, FALSE))
              /\ UNCHANGED <<sonar, counts>>
    /\ UNCHANGED <<github, dry_run, sonar_issues, github_issues, pass, limit, start,
                   prev, pf>>

\* a mutant of Aggregate: full_sync returns the result of forward sync alone
AggregateAfterForward ==
    /\ pc = "close"
    /\ idx > Len(github_issues)
    /\ pc' = "done"
    /\ UNCHANGED <<sonar, github, dry_run, sonar_issues, github_issues, idx, counts,
                   calls, pass, limit, failures, start, prev, pf>>

\* sync.py:179-181 and 205-227
Aggregate ==
    /\ pc = "reverse"
    /\ idx > Len(github_issues)
    /\ pc' = "done"
    /\ UNCHANGED <<sonar, github, dry_run, sonar_issues, github_issues, idx, counts,
                   calls, pass, limit, failures, start, prev, pf>>

Next ==
    \/ ValidateCredentials
    \/ FetchSonarIssues
    \/ ProcessSonarIssue
    \/ FetchForClosure
    \/ ProcessOpenIssue
    \/ FetchForReverse
    \/ ProcessClosedIssue
    \/ Aggregate

Spec == Init /\ [][Next]_vars

-----------------------------------------------------------------------------
(* The body protocol on its own: a Finding is rendered with                *)
(* _create_github_issue_body and the key is read back from the text with   *)
(* _extract_sonar_issue_key.                                               *)

\* the letters keys are drawn from: two of the class, one outside it
KeyLetters == {"A", "-", "."}

Keys == SeqsUpTo(KeyLetters, MaxKeyLen)

Messages ==
    { <<>>, <<"m">>, <<"m", NL, "m">>, <<MarkerPrefix, "B">>, <<"s","e","e"," ">> \o Url(IssueA),
      <<"**Tags:** ", "x">> }

TagLists == { <<>>, << <<"t">> >>, << <<"t">>, <<"u">> >> }

InitBody ==
    /\ pf \in { [ stage |-> "finding", si |-> SonarIssue(k, m, t), body |-> <<>>,
                  key |-> None ] : k \in Keys, m \in Messages, t \in TagLists }
    /\ sonar = <<>>
    /\ github = <<>>
    /\ pc = "idle"
    /\ dry_run = FALSE
    /\ sonar_issues = <<>>
    /\ github_issues = <<>>
    /\ idx = 0
    /\ counts = ZeroCounts
    /\ calls = <<>>
    /\ pass = 0
    /\ limit = 0
    /\ failures = 0
    /\ start = [ sonar0 |-> <<>>, github0 |-> <<>> ]
    /\ prev = NoPass

RenderBody ==
    /\ pf.stage = "finding"
    /\ pf' = [ pf EXCEPT !.stage = "body", !.body = CreateGithubIssueBody(pf.si) ]
    /\ UNCHANGED engineVars

ReadKey ==
    /\ pf.stage = "body"
    /\ pf' = [ pf EXCEPT !.stage = "key", !.key = ExtractSonarIssueKey(pf.body) ]
    /\ UNCHANGED engineVars

NextBody == RenderBody \/ ReadKey

SpecBody == InitBody /\ [][NextBody]_vars

-----------------------------------------------------------------------------
(* Projects about as large as the page of one search request.  A pass over *)
(* such a project is followed loop by loop: each of the three loops is run *)
(* to its end in one step, as it runs when none of its calls fails.        *)

DigitLetter(d) == <<"0","1","2","3","4","5","6","7","8","9">>[d + 1]

\* the decimal numeral of n, as letters
RECURSIVE Digits(_)
Digits(n) == IF n < 10 THEN <<DigitLetter(n)>> ELSE Digits(n \div 10) \o <<DigitLetter(n % 10)>>

LargeIssue(i) == SonarIssue(<<"K">> \o Digits(i), <<"m">>, <<>>)

\* n open issues, in the order the search returns them
LargeProject(n) == [ i \in 1..n |-> LargeIssue(i) ]

\* the open item that mirrors the first issue beyond the page
MirrorBeyondPage ==
    Item(Some(CreateGithubIssueBody(LargeIssue(SonarPageSize + 1))), "open", NullReason)

\* the project fills the page exactly or exceeds it; the repository is empty
\* or holds the mirror
InitLarge ==
    /\ sonar \in { LargeProject(n) : n \in {SonarPageSize, SonarPageSize + 2} }
    /\ github \in { Numbered(items) : items \in { <<>>, <<MirrorBeyondPage>> } }
    /\ limit = 1
    /\ pc = "idle"
    /\ dry_run = FALSE
    /\ sonar_issues = <<>>
    /\ github_issues = <<>>
    /\ idx = 0
    /\ counts = ZeroCounts
    /\ calls = <<>>
    /\ pass = 0
    /\ failures = 0
    /\ start = [ sonar0 |-> <<>>, github0 |-> <<>> ]
    /\ prev = NoPass
    /\ pf = NoFinding

\* one iteration of the loop of sync.py:61-103, for Finding i; acc holds the
\* repository, the counters and the calls so far
CreateStep(issues, i, acc) ==
    LET si == issues[i]
        existing == IssueExistsWithSonarLink(acc.github, Url(si))
        request == CreateCall(si, i, TRUE)
    IN           IF existing.some
                 THEN [ github |-> acc.github,
                        counts |-> [acc.counts EXCEPT !.skipped = @ + 1],
                        calls |-> Append(acc.calls, Lookup(i, TRUE)) ]
                 ELSE IF DryRun
                 THEN [ github |-> acc.github,
                        counts |-> [acc.counts EXCEPT !.created = @ + 1],
                        calls |-> Append(acc.calls, Lookup(i, TRUE)) ]
                 ELSE [ github |-> Created(acc.github, request.title, request.text,
                                           request.labels),
                        counts |-> [acc.counts EXCEPT !.created = @ + 1],
                        calls |-> acc.calls \o << Lookup(i, TRUE), request >> ]

\* the iterations lo..hi in order, split in halves to keep the evaluation
\* shallow; the test on the call log (it only grows) has the first half
\* evaluated before the second is entered
RECURSIVE CreateLoop(_, _, _, _)
CreateLoop(issues, lo, hi, acc) ==
    IF lo > hi THEN acc
    ELSE IF lo = hi THEN CreateStep(issues, lo, acc)
    ELSE LET mid == (lo + hi) \div 2
             first == CreateLoop(issues, lo, mid, acc)
         IN  IF Len(first.calls) >= Len(acc.calls)
             THEN CreateLoop(issues, mid + 1, hi, first)
             ELSE acc

RunCreateLoop ==
    /\ pc = "create"
    /\ idx <= Len(sonar_issues)
    /\ Parses(github, <<"sonarcloud">>)
    /\ LET end == CreateLoop(sonar_issues, idx, Len(sonar_issues),
                             [ github |-> github, counts |-> counts, calls |-> calls ])
       IN  /\ github' = end.github
           /\ counts' = end.counts
           /\ calls' = end.calls
    /\ idx' = Len(sonar_issues) + 1
    /\ UNCHANGED <<sonar, pc, dry_run, sonar_issues, github_issues, pass, limit,
                   failures, start, prev, pf>>

\* one iteration of the loop of sync.py:111-134, for item i
CloseStep(items, i, acc) ==
    LET github_issue == items[i]
        sonar_issue_key == ExtractSonarIssueKey(github_issue.body)
    IN           IF \/ github_issue.state # "open"
                    \/ ~HasKey(sonar_issue_key)
                    \/ StillOpen(sonar_issue_key.val)
                 THEN acc
                 ELSE IF DryRun
                 THEN [ github |-> acc.github,
                        counts |-> [acc.counts EXCEPT !.closed = @ + 1],
                        calls |-> acc.calls ]
                 ELSE [ github |-> Closed(acc.github, github_issue.number),
                        counts |-> [acc.counts EXCEPT !.closed = @ + 1],
                        calls |-> Append(acc.calls, CloseCall(github_issue.number, TRUE)) ]

RECURSIVE CloseLoop(_, _, _, _)
CloseLoop(items, lo, hi, acc) ==
    IF lo > hi THEN acc
    ELSE IF lo = hi THEN CloseStep(items, lo, acc)
    ELSE LET mid == (lo + hi) \div 2
             first == CloseLoop(items, lo, mid, acc)
         IN  IF Len(first.calls) >= Len(acc.calls)
             THEN CloseLoop(items, mid + 1, hi, first)
             ELSE acc

RunCloseLoop ==
    /\ pc = "close"
    /\ idx <= Len(github_issues)
    /\ LET end == CloseLoop(github_issues, idx, Len(github_issues),
                            [ github |-> github, counts |-> counts, calls |-> calls ])
       IN  /\ github' = end.github
           /\ counts' = end.counts
           /\ calls' = end.calls
    /\ idx' = Len(github_issues) + 1
    /\ UNCHANGED <<sonar, pc, dry_run, sonar_issues, github_issues, pass, limit,
                   failures, start, prev, pf>>

\* one iteration of the loop of sync.py:152-177, for item i; acc holds the
\* project, the counters and the calls so far
ReverseStep(items, i, acc) ==
    LET github_issue == items[i]
        sonar_issue_key == ExtractSonarIssueKey(github_issue.body)
    IN           IF ~NotPlanned(github_issue) \/ ~HasKey(sonar_issue_key)
                 THEN acc
                 ELSE IF DryRun
                 THEN [ sonar |-> acc.sonar,
                        counts |-> [acc.counts EXCEPT !.marked_wont_fix = @ + 1],
                        calls |-> acc.calls ]
                 ELSE [ sonar |-> WontFixed(acc.sonar, sonar_issue_key.val),
                        counts |-> [acc.counts EXCEPT !.marked_wont_fix = @ + 1],
                        calls |-> Append(acc.calls,
                                         ResolveCall(sonar_issue_key.val,
                                                     github_issue.number, TRUE)) ]

RECURSIVE ReverseLoop(_, _, _, _)
ReverseLoop(items, lo, hi, acc) ==
    IF lo > hi THEN acc
    ELSE IF lo = hi THEN ReverseStep(items, lo, acc)
    ELSE LET mid == (lo + hi) \div 2
             first == ReverseLoop(items, lo, mid, acc)
         IN  IF Len(first.calls) >= Len(acc.calls)
             THEN ReverseLoop(items, mid + 1, hi, first)
             ELSE acc

RunReverseLoop ==
    /\ pc = "reverse"
    /\ idx <= Len(github_issues)
    /\ LET end == ReverseLoop(github_issues, idx, Len(github_issues),
                              [ sonar |-> sonar, counts |-> counts, calls |-> calls ])
       IN  /\ sonar' = end.sonar
           /\ counts' = end.counts
           /\ calls' = end.calls
    /\ idx' = Len(github_issues) + 1
    /\ UNCHANGED <<github, pc, dry_run, sonar_issues, github_issues, pass, limit,
                   failures, start, prev, pf>>

NextLarge ==
    \/ ValidateCredentials
    \/ FetchSonarIssues
    \/ RunCreateLoop
    \/ FetchForClosure
    \/ RunCloseLoop
    \/ FetchForReverse
    \/ RunReverseLoop
    \/ Aggregate

SpecLarge == InitLarge /\ [][NextLarge]_vars

-----------------------------------------------------------------------------
(* The engine over clients of which only the signatures are assumed:        *)
(* close_issue(...) -> bool and resolve_issue_as_wont_fix(...) -> bool may  *)
(* return False without raising (github_client.py:112, sonar_client.py:80). *)

\* sync.py:124-129 when close_issue returns False: the value is not read
CloseReturnsFalse ==
    /\ pc = "close"
    /\ idx <= Len(github_issues)
    /\ LET github_issue == github_issues[idx]
           sonar_issue_key == ExtractSonarIssueKey(github_issue.body)
       IN  /\ github_issue.state = "open"
           /\ HasKey(sonar_issue_key)
           /\ ~StillOpen(sonar_issue_key.val)
           /\ ~DryRun
           /\ counts' = [counts EXCEPT !.closed = @ + 1]
           /\ calls' = Append(calls, CloseCall(github_issue.number, FALSE))
           /\ Continue
    /\ UNCHANGED <<sonar, github, dry_run, sonar_issues, github_issues, pass, limit,
                   failures, start, prev, pf>>

\* sync.py:164-170 when resolve_issue_as_wont_fix returns False: `if success:`
ResolveReturnsFalse ==
    /\ pc = "reverse"
    /\ idx <= Len(github_issues)
    /\ LET github_issue == github_issues[idx]
           sonar_issue_key == ExtractSonarIssueKey(github_issue.body)
       IN  /\ NotPlanned(github_issue)
           /\ HasKey(sonar_issue_key)
           /\ ~DryRun
           /\ calls' = Append(calls, ResolveCall(sonar_issue_key.val,
                                                 github_issue.number, FALSE))
           /\ Continue
    /\ UNCHANGED <<sonar, github, dry_run, sonar_issues, github_issues, counts, pass,
                   limit, failures, start, prev, pf>>

NextStub == Next \/ CloseReturnsFalse \/ ResolveReturnsFalse

SpecStub == Init /\ [][NextStub]_vars

-----------------------------------------------------------------------------
(* GitHubClient.get_issues_with_label request by request                    *)
(* (github_client.py:46-80): idx is the local page, github_issues the local *)
(* issues, pc is "page" inside the while loop.                              *)

MaxPages == 2

\* the i-th issue of a repository, carrying the label or not
PagedItem(i, labels) ==
    [ number |-> i, title |-> <<"t">>, body |-> Some(<<"b">>), state |-> "open",
      state_reason |-> NullReason, labels |-> labels ]

\* n labelled issues, newest first, behind one that lacks the label when other
PagedRepo(n, other) ==
    (IF other THEN << PagedItem(n + 1, <<>>) >> ELSE <<>>)
        \o [ p \in 1..n |-> PagedItem(n - p + 1, << <<"sonarcloud">> >>) ]

PageCall(page, ok) == Call("get_issues_page", page, <<>>, <<>>, <<>>, ok)

InitPages ==
    /\ github \in { PagedRepo(n, other) :
                      n \in 0..(MaxPages * PerPage + 1), other \in BOOLEAN }
    /\ failures \in {0, MaxFailures}
    /\ pc = "page"
    /\ idx = 1
    /\ github_issues = <<>>
    /\ calls = <<>>
    /\ sonar = <<>>
    /\ dry_run = FALSE
    /\ sonar_issues = <<>>
    /\ counts = ZeroCounts
    /\ pass = 0
    /\ limit = 0
    /\ start = [ sonar0 |-> <<>>, github0 |-> <<>> ]
    /\ prev = NoPass
    /\ pf = NoFinding

\* one iteration of the while loop
FetchPage ==
    /\ pc = "page"
    /\ LET data == Page(Labeled(github, <<"sonarcloud">>), idx)
       IN  \/ \* response.raise_for_status() raises
              /\ MayFail
              /\ Fails(calls, PageCall(idx, FALSE))
              /\ UNCHANGED github_issues
           \/ /\ calls' = Append(calls, PageCall(idx, TRUE))
              /\ IF data = <<>>
                 THEN /\ pc' = "returned"
                      /\ UNCHANGED <<github_issues, idx>>
                 ELSE /\ github_issues' =
                             github_issues \o [ p \in 1..Len(data) |-> GitHubIssue(data[p]) ]
                      /\ IF ShortPage(data)
                         THEN pc' = "returned" /\ idx' = idx
                         ELSE pc' = pc /\ idx' = idx + 1
              /\ UNCHANGED failures
    /\ UNCHANGED <<sonar, github, dry_run, sonar_issues, counts, pass, limit, start,
                   prev, pf>>

NextPages == FetchPage

\* the loop is not suspended between two requests
SpecPages == InitPages /\ [][NextPages]_vars /\ WF_vars(FetchPage)

-----------------------------------------------------------------------------
(* Vocabulary of the properties *)

IsLabeled(item) == \E l \in 1..Len(item.labels) : item.labels[l] = <<"sonarcloud">>

\* some labelled item of the repository holds the link in its body
LinkedItem(url) ==
    \E p \in 1..Len(github) :
        IsLabeled(github[p]) /\ github[p].body.some /\ Contains(url, github[p].body.val)

CallsOf(log, op) == { k \in 1..Len(log) : log[k].op = op }

OkCalls(log, op) == { k \in CallsOf(log, op) : log[k].ok }

FailedCalls(log, op) == { k \in CallsOf(log, op) : ~log[k].ok }

\* the calls of one operation that name issue n (a position or an issue number)
CallsFor(log, op, n) == { k \in CallsOf(log, op) : log[k].n = n }

Mutating == {"create_issue", "close_issue", "resolve_issue_as_wont_fix"}

AllCallsOk(log) == \A k \in 1..Len(log) : log[k].ok

WellFormedKey(key) == key # <<>> /\ \A i \in 1..Len(key) : key[i] \in KeyClass

\* the body holds no key line the regex would match
LacksPattern(body) ==
    \A i \in 1..Len(body) :
        body[i] = MarkerPrefix => (i = Len(body) \/ body[i + 1] \notin KeyClass)

ClosedAsNotPlanned(item) == item.state = "closed" /\ item.state_reason = "not_planned"

\* an open item whose extracted key is the key of no fetched Finding
Stale(item) ==
    /\ item.state = "open"
    /\ ExtractSonarIssueKey(item.body).some
    /\ \A i \in 1..Len(sonar_issues) :
           sonar_issues[i].key # ExtractSonarIssueKey(item.body).val

\* the create loop is over and the labelled list was fetched for the closure loop
CreationDone == pc \in {"close", "reverse", "done"}

\* the closure loop of forward sync has run over the whole fetched list
ClosureDone == pc = "close" /\ idx > Len(github_issues)

Executing == pass >= 1 /\ ~dry_run

Previewing == pass >= 1 /\ dry_run

-----------------------------------------------------------------------------
(* C1: a Finding whose canonical URL is in the body of some labelled item  *)
(* when it is processed is skipped: the step issues no create call,        *)
(* changes nothing in the tracker and adds exactly one to skipped (unless  *)
(* the labelled list cannot be fetched, which ends the pass).              *)
C1_NoDuplicateCreation ==
    [][ ( /\ pc = "create"
          /\ idx <= Len(sonar_issues)
          /\ LinkedItem(Url(sonar_issues[idx]))
          /\ pc' # "raised" )
        => /\ counts' = [counts EXCEPT !.skipped = @ + 1]
           /\ calls' = Append(calls, Lookup(idx, TRUE))
           /\ github' = github
           /\ idx' = idx + 1 ]_vars

\* the first of two Findings has just been skipped in an execution pass
C1_Witness ==
    /\ Executing
    /\ pc = "create"
    /\ idx = 2
    /\ counts.skipped = 1
    /\ counts.created = 0
    /\ LinkedItem(Url(sonar_issues[1]))

-----------------------------------------------------------------------------
(* C2: forward sync run twice in execution mode                            *)

\* the create loop of a second execution pass is over, the first pass was an
\* execution pass too, and SonarCloud holds what it held when the first began
\* (GitHub is written by forward sync only, so it is as the first run left it)
SecondRun ==
    /\ CreationDone
    /\ ~dry_run
    /\ prev.ran
    /\ ~prev.dry_run
    /\ start.sonar0 = prev.sonar0

-----------------------------------------------------------------------------
(* C3: when the closure loop of an execution-mode forward sync is over,    *)
(* close_issue has been called exactly once for every fetched labelled     *)
(* item that is open and whose extracted key is the key of no fetched      *)
(* Finding, and for no other item; the fetched list is the whole labelled  *)
(* list.                                                                   *)
C3_ClosureCorrect ==
    (Executing /\ ClosureDone)
        => /\ \A p \in 1..Len(github_issues) :
                  Cardinality(CallsFor(calls, "close_issue", github_issues[p].number))
                      = IF Stale(github_issues[p]) THEN 1 ELSE 0
           /\ \A k \in CallsOf(calls, "close_issue") :
                  \E p \in 1..Len(github_issues) : github_issues[p].number = calls[k].n
           /\ { github_issues[p].number : p \in 1..Len(github_issues) }
                  = { github[q].number : q \in { r \in 1..Len(github) : IsLabeled(github[r]) } }

\* one item was closed, and an open item of a still open Finding was kept
C3_Witness ==
    /\ Executing
    /\ ClosureDone
    /\ Cardinality(CallsOf(calls, "close_issue")) = 1
    /\ \E p \in 1..Len(github_issues) :
           /\ github_issues[p].state = "open"
           /\ ExtractSonarIssueKey(github_issues[p].body).some
           /\ ~Stale(github_issues[p])

-----------------------------------------------------------------------------
(* C4: reverse propagation selectivity                                     *)

\* C4 as stated: at the end of a pass, the items resolve_issue_as_wont_fix
\* was called for are the items closed as not_planned.
C4_Original ==
    pc = "done"
        => \A p \in 1..Len(github_issues) :
               CallsFor(calls, "resolve_issue_as_wont_fix", github_issues[p].number) # {}
                   <=> ClosedAsNotPlanned(github_issues[p])

\* C4 amended: in execution mode the call is made (once) for exactly the items
\* closed as not_planned whose body yields a key; in preview mode for none.
C4_Selective ==
    pc = "done"
        => \A p \in 1..Len(github_issues) :
               Cardinality(CallsFor(calls, "resolve_issue_as_wont_fix",
                                    github_issues[p].number))
                   = IF /\ ~dry_run
                        /\ ClosedAsNotPlanned(github_issues[p])
                        /\ ExtractSonarIssueKey(github_issues[p].body).some
                     THEN 1 ELSE 0

\* one item was propagated, one closed as completed was not
C4_Witness ==
    /\ Executing
    /\ pc = "done"
    /\ Cardinality(CallsOf(calls, "resolve_issue_as_wont_fix")) = 1
    /\ \E p \in 1..Len(github_issues) :
           /\ github_issues[p].state = "closed"
           /\ github_issues[p].state_reason = "completed"
           /\ ExtractSonarIssueKey(github_issues[p].body).some

-----------------------------------------------------------------------------
(* C5: a preview pass issues no create, close or mark call and leaves both *)
(* collaborators' data as they were, while a completed preview pass has    *)
(* made both connection checks, the Finding fetch, one lookup per Finding  *)
(* and the two labelled-list fetches.                                      *)
C5_PreviewReadOnly ==
    Previewing
        => /\ \A k \in 1..Len(calls) : calls[k].op \notin Mutating
           /\ sonar = start.sonar0
           /\ github = start.github0
           /\ pc = "done"
                => /\ calls[1] = Read("sonar.test_connection", TRUE)
                   /\ calls[2] = Read("github.test_connection", TRUE)
                   /\ calls[3] = Read("get_issues", TRUE)
                   /\ \A i \in 1..Len(sonar_issues) :
                          Cardinality(CallsFor(calls, "issue_exists_with_sonar_link", i)) = 1
                   /\ Cardinality(OkCalls(calls, "get_issues_with_label")) = 2

\* a completed preview pass that counted a creation, a closure and a mark
C5_Witness ==
    /\ Previewing
    /\ pc = "done"
    /\ counts.created >= 1
    /\ counts.closed >= 1
    /\ counts.marked_wont_fix >= 1

-----------------------------------------------------------------------------
(* C6: preview and execution give the same counters                        *)

\* an execution pass has returned; the pass before it was a preview from the
\* same collaborator data
PreviewThenExecution ==
    /\ pc = "done"
    /\ ~dry_run
    /\ prev.ran
    /\ prev.dry_run
    /\ start.sonar0 = prev.sonar0
    /\ start.github0 = prev.github0

\* no Finding's link occurs in the body rendered for a Finding at another
\* position of the list
NoCrossLinks(issues) ==
    \A i, j \in 1..Len(issues) :
        i # j => ~Contains(Url(issues[i]), CreateGithubIssueBody(issues[j]))

-----------------------------------------------------------------------------
(* C7: the round trip of the key through the body (under SpecBody)         *)

\* C7 as stated: the key read back is the Finding's key, for any Finding.
C7_Original == pf.stage = "key" => pf.key = Some(pf.si.key)

\* C7 amended: the key read back is the Finding's key when the key is a
\* non-empty run of [A-Za-z0-9_:-].
C7_RoundTrip ==
    (pf.stage = "key" /\ WellFormedKey(pf.si.key)) => pf.key = Some(pf.si.key)

\* a two-letter key read back from a body with tags whose message quotes a key line
C7_Witness ==
    /\ pf.stage = "key"
    /\ WellFormedKey(pf.si.key)
    /\ Len(pf.si.key) = 2
    /\ pf.si.tags # <<>>
    /\ pf.si.message = <<MarkerPrefix, "B">>
    /\ pf.key = Some(pf.si.key)

-----------------------------------------------------------------------------
(* C8: in an execution pass a failed create_issue never ends the pass;     *)
(* created counts the successful create calls only, and when the create    *)
(* loop is over every Finding was looked up once and the Findings whose    *)
(* create call failed are in neither created nor skipped.                  *)
C8_CreateErrorSwallowed ==
    Executing
        => /\ pc = "raised" => calls[Len(calls)].op # "create_issue"
           /\ counts.created = Cardinality(OkCalls(calls, "create_issue"))
           /\ CreationDone
                => /\ \A i \in 1..Len(sonar_issues) :
                          Cardinality(CallsFor(calls, "issue_exists_with_sonar_link", i)) = 1
                   /\ counts.created + counts.skipped
                          + Cardinality(FailedCalls(calls, "create_issue"))
                      = Len(sonar_issues)

\* the first create failed, the second Finding was created, the pass returned
C8_Witness ==
    /\ Executing
    /\ pc = "done"
    /\ FailedCalls(calls, "create_issue") # {}
    /\ \A k \in FailedCalls(calls, "create_issue") : calls[k].n = 1
    /\ counts.created = 1
    /\ counts.skipped = 0

-----------------------------------------------------------------------------
(* C9: in an execution pass a failed close_issue or                        *)
(* resolve_issue_as_wont_fix never ends the pass; closed and               *)
(* marked_wont_fix count the successful calls only; when the closure loop  *)
(* is over every stale item was tried, and when the pass returns every     *)
(* item closed as not_planned with a key was tried.                        *)
C9_ItemErrorSwallowed ==
    Executing
        => /\ pc = "raised"
                => calls[Len(calls)].op \notin {"close_issue", "resolve_issue_as_wont_fix"}
           /\ counts.closed = Cardinality(OkCalls(calls, "close_issue"))
           /\ counts.marked_wont_fix
                  = Cardinality(OkCalls(calls, "resolve_issue_as_wont_fix"))
           /\ ClosureDone
                => \A p \in 1..Len(github_issues) :
                       Stale(github_issues[p])
                           => CallsFor(calls, "close_issue", github_issues[p].number) # {}
           /\ pc = "done"
                => \A p \in 1..Len(github_issues) :
                       ( /\ ClosedAsNotPlanned(github_issues[p])
                         /\ ExtractSonarIssueKey(github_issues[p].body).some )
                           => CallsFor(calls, "resolve_issue_as_wont_fix",
                                       github_issues[p].number) # {}

\* a close call failed, a later one succeeded, and the pass returned
C9_Witness ==
    /\ Executing
    /\ pc = "done"
    /\ counts.closed = 1
    /\ \E j \in FailedCalls(calls, "close_issue") :
           \E k \in OkCalls(calls, "close_issue") : j < k

-----------------------------------------------------------------------------
(* C10: an item whose body holds no key line is passed over, in the        *)
(* closure loop when it is open and in reverse sync when it is closed as   *)
(* not_planned: the loop goes on, no call is issued, no counter and no     *)
(* collaborator data change.                                               *)
C10_MalformedSkipped ==
    [][ ( /\ pc \in {"close", "reverse"}
          /\ idx <= Len(github_issues)
          /\ LacksPattern(github_issues[idx].body)
          /\ \/ pc = "close" /\ github_issues[idx].state = "open"
             \/ pc = "reverse" /\ ClosedAsNotPlanned(github_issues[idx]) )
        => /\ pc' = pc
           /\ idx' = idx + 1
           /\ UNCHANGED <<counts, calls, sonar, github, failures>> ]_vars

\* a pass returned after the closure loop met an open item without a key line
\* and reverse sync met one closed as not_planned
C10_Witness ==
    /\ Executing
    /\ pc = "done"
    /\ \E p \in 1..Len(github_issues) :
           github_issues[p].state = "open" /\ LacksPattern(github_issues[p].body)
    /\ \E p \in 1..Len(github_issues) :
           ClosedAsNotPlanned(github_issues[p]) /\ LacksPattern(github_issues[p].body)
    /\ counts = ZeroCounts
    /\ CallsOf(calls, "close_issue") = {}
    /\ CallsOf(calls, "resolve_issue_as_wont_fix") = {}

-----------------------------------------------------------------------------
(* C11: the pass begins with the SonarCloud connection check; when it      *)
(* returns false the pass raises with no other call made (the GitHub check *)
(* included); otherwise the GitHub check follows, and when that returns    *)
(* false the pass raises with no fetch and no create, close or mark call   *)
(* made and both collaborators' data untouched.                            *)
C11_CredentialsFailFast ==
    pass >= 1
        => /\ calls # <<>>
           /\ calls[1].op = "sonar.test_connection"
           /\ ~calls[1].ok => (Len(calls) = 1 /\ pc = "raised")
           /\ calls[1].ok
                => /\ Len(calls) >= 2
                   /\ calls[2].op = "github.test_connection"
                   /\ ~calls[2].ok
                        => /\ Len(calls) = 2
                           /\ pc = "raised"
                           /\ sonar = start.sonar0
                           /\ github = start.github0

\* a second pass stopped at the GitHub check after a first pass that created an item
C11_Witness ==
    /\ pass = 2
    /\ pc = "raised"
    /\ Len(calls) = 2
    /\ ~calls[2].ok
    /\ prev.counts.created >= 1

-----------------------------------------------------------------------------
(* C12: a failed get_issues, get_issues_with_label or per-Finding lookup   *)
(* is the last call of its pass and leaves the pass raised; a raised pass  *)
(* never returns a result.                                                 *)
FetchOps == {"get_issues", "get_issues_with_label", "issue_exists_with_sonar_link"}

C12_FetchFailureFatal ==
    /\ [](\A k \in 1..Len(calls) :
              (calls[k].op \in FetchOps /\ ~calls[k].ok)
                  => (pc = "raised" /\ k = Len(calls)))
    /\ [][pc = "raised" => pc' = "raised"]_vars

\* the lookup of the second Finding failed after the first Finding was created
C12_Witness ==
    /\ Executing
    /\ pc = "raised"
    /\ calls[Len(calls)] = Lookup(2, FALSE)
    /\ counts.created = 1

-----------------------------------------------------------------------------
(* C13: a pass moves through validation, forward sync (fetch, create loop, *)
(* closure loop), reverse sync and aggregation in that order, never back;  *)
(* it leaves this line only by raising on a failed connection check or     *)
(* fetch; whenever the closure loop is over reverse sync is what follows,  *)
(* and a pass that returned made one Finding fetch and both labelled-list  *)
(* fetches and ran the reverse loop to its end.                            *)
PassOrder ==
    { <<"idle", "forward">>, <<"done", "forward">>, <<"forward", "create">>,
      <<"create", "create">>, <<"create", "close">>, <<"close", "close">>,
      <<"close", "reverse">>, <<"reverse", "reverse">>, <<"reverse", "done">> }

C13_LinearPass ==
    /\ [][ \/ <<pc, pc'>> \in PassOrder
           \/ /\ pc' = "raised"
              /\ pc \in {"idle", "done", "forward", "create", "close"}
              /\ ~calls'[Len(calls')].ok
              /\ calls'[Len(calls')].op \notin Mutating ]_vars
    /\ []( (pc = "close" /\ idx > Len(github_issues)) => ENABLED FetchForReverse )
    /\ []( pc = "done"
             => /\ Cardinality(CallsOf(calls, "get_issues")) = 1
                /\ Cardinality(OkCalls(calls, "get_issues_with_label")) = 2
                /\ idx > Len(github_issues) )

\* an execution pass returned, and reverse sync marked a Finding, although a
\* create call of forward sync had failed
C13_Witness ==
    /\ Executing
    /\ pc = "done"
    /\ FailedCalls(calls, "create_issue") # {}
    /\ counts.marked_wont_fix >= 1

-----------------------------------------------------------------------------
(* C14: after an execution pass in which every collaborator call           *)
(* succeeded, every issue that is open in the SonarCloud project and of a  *)
(* requested type has a labelled item whose body holds its link.           *)
C14_OpenFindingsMirrored ==
    (pc = "done" /\ ~dry_run /\ AllCallsOk(calls))
        => \A i \in 1..Len(sonar) :
               sonar[i].type \in IssueTypes => LinkedItem(Url(sonar[i]))

-----------------------------------------------------------------------------
(* C15: during forward sync close_issue is requested only for an item      *)
(* whose body yields a key that no open issue of the SonarCloud project    *)
(* has.                                                                    *)
C15_ClosesOnlyDisappeared ==
    (pc = "close" /\ ~dry_run)
        => \A k \in CallsOf(calls, "close_issue") :
               \A p \in 1..Len(github_issues) :
                   github_issues[p].number = calls[k].n
                       => /\ ExtractSonarIssueKey(github_issues[p].body).some
                          /\ \A i \in 1..Len(sonar) :
                                 sonar[i].key # ExtractSonarIssueKey(github_issues[p].body).val

-----------------------------------------------------------------------------
(* C16: no step of any pass deletes or re-opens a tracker item or changes   *)
(* the number, title, body or labels of an existing one: the repository     *)
(* changes only by an acknowledged create_issue (one new item in front) or  *)
(* close_issue (the named item goes from open to closed), and the project   *)
(* only by an acknowledged resolve_issue_as_wont_fix of the named key.      *)
SameItem(old, new) ==
    /\ new.number = old.number
    /\ new.title = old.title
    /\ new.body = old.body
    /\ new.labels = old.labels

C16_OnlyCreateCloseResolve ==
    [][ LET grown == Len(github') - Len(github)
            last == calls'[Len(calls')]
        IN  /\ grown \in {0, 1}
            /\ \A p \in 1..Len(github) :
                   /\ SameItem(github[p], github'[p + grown])
                   /\ github'[p + grown].state # github[p].state
                          => /\ github[p].state = "open"
                             /\ github'[p + grown].state = "closed"
                             /\ last.op = "close_issue"
                             /\ last.n = github[p].number
            /\ grown = 1 => last.op = "create_issue"
            /\ github' # github
                   => /\ Len(calls') > Len(calls)
                      /\ last.ok
                      /\ last.op \in {"create_issue", "close_issue"}
                      /\ sonar' = sonar
            /\ sonar' # sonar
                   => /\ Len(calls') > Len(calls)
                      /\ last.ok
                      /\ last.op = "resolve_issue_as_wont_fix"
                      /\ sonar' = WontFixed(sonar, last.text)
                      /\ github' = github
            /\ (calls' # calls /\ calls' # <<>> /\ last.op \in Mutating /\ last.ok)
                   => ~dry_run ]_vars

\* a second pass in which an item is closed, after a pass that created one
\* and marked a Finding won't-fix
C16_Witness ==
    /\ Executing
    /\ pass = 2
    /\ OkCalls(prev.calls, "create_issue") # {}
    /\ OkCalls(prev.calls, "resolve_issue_as_wont_fix") # {}
    /\ OkCalls(calls, "close_issue") # {}
    /\ Len(github) > Len(start.github0)
    /\ \E p \in 1..Len(start.github0) : start.github0[p].state = "closed"

-----------------------------------------------------------------------------
(* C17: every create request of a pass carries the Finding's message as    *)
(* title, the rendered body of that Finding, which begins with the line     *)
(* '**SonarCloud Issue:** <key>', and the labels 'sonarcloud' followed by   *)
(* the Finding's tags in their order; an acknowledged request leaves an     *)
(* open item with exactly these fields in the repository.                   *)
C17_CreateRequest ==
    \A k \in CallsOf(calls, "create_issue") :
        LET si == sonar_issues[calls[k].n]
            keyLine == <<MarkerPrefix>> \o si.key \o <<NL>>
        IN  /\ calls[k].title = si.message
            /\ calls[k].text = CreateGithubIssueBody(si)
            /\ SubSeq(calls[k].text, 1, Len(keyLine)) = keyLine
            /\ Len(calls[k].labels) = 1 + Len(si.tags)
            /\ calls[k].labels[1] = <<"sonarcloud">>
            /\ \A t \in 1..Len(si.tags) : calls[k].labels[t + 1] = si.tags[t]
            /\ calls[k].ok
                   => \E p \in 1..Len(github) :
                          /\ github[p].title = si.message
                          /\ github[p].body = Some(calls[k].text)
                          /\ github[p].labels = calls[k].labels

\* an acknowledged create request for a Finding with two tags
C17_Witness ==
    \E k \in OkCalls(calls, "create_issue") :
        /\ Len(sonar_issues[calls[k].n].tags) >= 2
        /\ Len(calls[k].labels) = 3

-----------------------------------------------------------------------------
(* C18: the key read from a body is the maximal run of characters of       *)
(* [A-Za-z0-9_:-] that follows the first occurrence of the prefix           *)
(* '**SonarCloud Issue:** ' which is followed by at least one such          *)
(* character, and it is None when the body has no such occurrence.          *)
PrefixAt(body) == { i \in 1..Len(body) : body[i] = MarkerPrefix }

\* the characters of the class that follow position i without interruption
ClassRunAfter(body, i) ==
    LET n == CHOOSE m \in 0..(Len(body) - i) :
                 /\ \A j \in 1..m : body[i + j] \in KeyClass
                 /\ i + m = Len(body) \/ body[i + m + 1] \notin KeyClass
    IN  SubSeq(body, i + 1, i + n)

Earliest(S) == CHOOSE i \in S : \A j \in S : i <= j

C18_ExtractFirstMatch ==
    pf.stage = "key"
        => LET matches == { i \in PrefixAt(pf.body) : ClassRunAfter(pf.body, i) # <<>> }
           IN  IF matches = {} THEN pf.key = None
               ELSE pf.key = Some(ClassRunAfter(pf.body, Earliest(matches)))

\* C18 as stated: the run follows the first occurrence of the prefix
C18_Original ==
    pf.stage = "key"
        => IF PrefixAt(pf.body) = {} THEN pf.key = None
           ELSE pf.key.some
                    => pf.key.val = ClassRunAfter(pf.body, Earliest(PrefixAt(pf.body)))

\* a key was read from a later occurrence of the prefix, the first one being
\* followed by a character outside the class
C18_Witness ==
    /\ pf.stage = "key"
    /\ pf.key.some
    /\ ClassRunAfter(pf.body, Earliest(PrefixAt(pf.body))) = <<>>

-----------------------------------------------------------------------------
(* C19: the lookup made for a Finding returns the earliest item, in the    *)
(* order of the labelled list, whose body contains the Finding's canonical  *)
(* URL, also when several items contain it, and none when no item does.     *)
LinkHits(url) ==
    { p \in 1..Len(github) :
        IsLabeled(github[p]) /\ github[p].body.some /\ Contains(url, github[p].body.val) }

C19_FirstItemWithLink ==
    (pc = "create" /\ idx <= Len(sonar_issues) /\ Parses(github, <<"sonarcloud">>))
        => LET url == Url(sonar_issues[idx])
               found == IssueExistsWithSonarLink(github, url)
           IN  IF LinkHits(url) = {} THEN found = None
               ELSE /\ found.some
                    /\ found.val.number = github[Earliest(LinkHits(url))].number
                    /\ found.val.state = github[Earliest(LinkHits(url))].state
                    /\ found.val.body = github[Earliest(LinkHits(url))].body.val

\* a Finding is looked up while two items of different state hold its link
C19_Witness ==
    /\ pc = "create"
    /\ idx <= Len(sonar_issues)
    /\ Parses(github, <<"sonarcloud">>)
    /\ \E p, q \in LinkHits(Url(sonar_issues[idx])) :
           p < q /\ github[p].state # github[q].state /\ github[p].body # github[q].body

-----------------------------------------------------------------------------
(* C20: for a Finding with tags the rendered body has the lines, in order:  *)
(* key, Type, Severity, Component, blank, '**Description:**', message,      *)
(* blank, '**SonarCloud Link:** <url>', '**Tags:** <tags joined by ", ">',  *)
(* blank, blank, '---', attribution: the tags line directly follows the     *)
(* link line and two blank lines follow it.                                 *)
TagText(tags) ==
    IF Len(tags) = 1 THEN tags[1] ELSE tags[1] \o <<", ">> \o tags[2]

HeadLines(si) ==
    << <<"**SonarCloud Issue:** ">> \o si.key,
       <<"**Type:** ">> \o si.type,
       <<"**Severity:** ">> \o si.severity,
       <<"**Component:** ">> \o si.component,
       <<>>,
       <<"**Description:**">>,
       si.message,
       <<>> >>

FootLines ==
    << <<"-","-","-">>, <<"*This issue was automatically created from SonarCloud*">> >>

LinkText(si) ==
    <<"**SonarCloud Link:** ", "h","t","t","p","s",":","//sonarcloud.io/project/issues?id=">>
        \o si.project \o <<"&issues=">> \o si.key \o <<"&open=">> \o si.key

C20_TaggedBodyLines ==
    (pf.stage = "body" /\ pf.si.tags # <<>>)
        => pf.body = Join(HeadLines(pf.si)
                            \o << LinkText(pf.si),
                                  <<"**Tags:** ">> \o TagText(pf.si.tags),
                                  <<>>,
                                  <<>> >>
                            \o FootLines, <<NL>>)

\* C20 as stated: tags line, blank, link line, blank
C20_Original ==
    (pf.stage = "body" /\ pf.si.tags # <<>>)
        => pf.body = Join(HeadLines(pf.si)
                            \o << <<"**Tags:** ">> \o TagText(pf.si.tags),
                                  <<>>,
                                  LinkText(pf.si),
                                  <<>> >>
                            \o FootLines, <<NL>>)

\* a body rendered for a Finding with two tags and a message of two lines
C20_Witness ==
    /\ pf.stage = "body"
    /\ Len(pf.si.tags) = 2
    /\ pf.si.key # <<>>
    /\ \E c \in 1..Len(pf.si.message) : pf.si.message[c] = NL
    /\ Contains(<<"**Tags:** ", "t", ", ", "u">>, pf.body)

-----------------------------------------------------------------------------
(* C21: for a Finding without tags the rendered body is exactly the twelve  *)
(* fixed lines (key, Type, Severity, Component, blank, '**Description:**',  *)
(* message, blank, link, blank, '---', attribution) joined by newlines, and *)
(* it holds the text '**Tags:**' only where the message itself holds it.    *)
TagsMark == <<"**Tags:** ">>

TwelveLines(si) == HeadLines(si) \o << LinkText(si), <<>> >> \o FootLines

C21_UntaggedBody ==
    (pf.stage = "body" /\ pf.si.tags = <<>>)
        => /\ pf.body = Join(TwelveLines(pf.si), <<NL>>)
           /\ Len(TwelveLines(pf.si)) = 12
           /\ Contains(TagsMark, pf.body) => Contains(TagsMark, pf.si.message)

\* C21 as stated: the body of a Finding without tags never holds '**Tags:**'
C21_Original ==
    (pf.stage = "body" /\ pf.si.tags = <<>>)
        => /\ pf.body = Join(TwelveLines(pf.si), <<NL>>)
           /\ ~Contains(TagsMark, pf.body)

\* a body rendered for a Finding without tags whose message has two lines
C21_Witness ==
    /\ pf.stage = "body"
    /\ pf.si.tags = <<>>
    /\ pf.si.key # <<>>
    /\ \E c \in 1..Len(pf.si.message) : pf.si.message[c] = NL
    /\ ~Contains(TagsMark, pf.body)

-----------------------------------------------------------------------------
(* C22: get_issues_with_label requests the pages 1, 2, ... of 100 items in  *)
(* order, goes on exactly when the page received was full, stops after the  *)
(* first empty or shorter page, and returns the items of all pages in page  *)
(* order: all n labelled items of the repository, for every n; unless a     *)
(* request fails the loop ends by returning.                                *)
AllLabeled ==
    LET data == Labeled(github, <<"sonarcloud">>)
    IN  [ p \in 1..Len(data) |-> GitHubIssue(data[p]) ]

C22_Pagination ==
    /\ []( /\ \A k \in 1..Len(calls) : calls[k].op = "get_issues_page" /\ calls[k].n = k
           /\ \A k \in 1..(Len(calls) - 1) : calls[k].ok
           /\ pc = "raised" => ~calls[Len(calls)].ok
           /\ pc = "returned"
                  => /\ github_issues = AllLabeled
                     /\ github_issues = GetIssuesWithLabel(github, <<"sonarcloud">>)
                     /\ \A p \in 1..Len(github_issues) :
                            github_issues[p].number = Len(github_issues) - p + 1
                     /\ Len(calls) = (Len(AllLabeled) \div 100) + 1 )
    /\ [][ /\ (pc = "page" /\ pc' = "page")
                  => /\ Len(github_issues') = Len(github_issues) + 100
                     /\ idx' = idx + 1
           /\ (pc = "page" /\ pc' = "returned")
                  => Len(github_issues') - Len(github_issues) \in 0..99
           /\ SubSeq(github_issues', 1, Len(github_issues)) = github_issues ]_vars
    /\ <>(pc = "returned" \/ pc = "raised")

\* the loop has returned two full pages after receiving an empty third one,
\* from a repository that also holds an issue without the label
C22_Witness ==
    /\ pc = "returned"
    /\ Len(github_issues) = 200
    /\ Len(calls) = 3
    /\ Len(github) = 201

-----------------------------------------------------------------------------
(* C23: if before the first pass no two labelled items hold the canonical   *)
(* URL of the same Finding of the project, and no Finding's rendered body   *)
(* holds the URL of a Finding with another key, then after any passes, with *)
(* any failed calls and with a key listed twice, still no two labelled      *)
(* items hold the URL of the same Finding.                                  *)
InitialGithub ==
    IF pass = 0 THEN github ELSE IF prev.ran THEN prev.github0 ELSE start.github0

InitialSonar ==
    IF pass = 0 THEN sonar ELSE IF prev.ran THEN prev.sonar0 ELSE start.sonar0

ItemsWithLink(repo, url) ==
    { p \in 1..Len(repo) :
        IsLabeled(repo[p]) /\ repo[p].body.some /\ Contains(url, repo[p].body.val) }

\* no two labelled items of the repository hold the URL of one Finding
Unique(repo, project) ==
    \A i \in 1..Len(project) : Cardinality(ItemsWithLink(repo, Url(project[i]))) <= 1

\* no Finding's rendered body holds the URL of a Finding with another key
NoQuotedLink(project) ==
    \A i, j \in 1..Len(project) :
        project[i].key # project[j].key
            => ~Contains(Url(project[i]), CreateGithubIssueBody(project[j]))

C23_UniquenessPreserved ==
    (Unique(InitialGithub, InitialSonar) /\ NoQuotedLink(InitialSonar))
        => Unique(github, InitialSonar)

\* C23 as stated: uniqueness at the start alone is assumed
C23_Original ==
    Unique(InitialGithub, InitialSonar) => Unique(github, InitialSonar)

\* a second execution pass has ended over a list that names a key twice, the
\* first pass having created one item for it after a failed create call
C23_Witness ==
    /\ Executing
    /\ pass = 2
    /\ pc = "done"
    /\ ~prev.dry_run
    /\ Len(sonar_issues) = 2
    /\ sonar_issues[1].key = sonar_issues[2].key
    /\ FailedCalls(prev.calls, "create_issue") # {}
    /\ OkCalls(prev.calls, "create_issue") # {}
    /\ Unique(InitialGithub, InitialSonar)
    /\ Cardinality(ItemsWithLink(github, Url(sonar_issues[1]))) = 1

-----------------------------------------------------------------------------
(* C24: within one forward sync an item that the lookup returned for a      *)
(* Finding (so that the Finding was skipped) and whose body yields that     *)
(* Finding's key is never requested closed by the closure loop.             *)

\* the lookups of the pass that found an item: no create call follows them
SkipLookups ==
    { k \in OkCalls(calls, "issue_exists_with_sonar_link") :
        k = Len(calls) \/ calls[k + 1].op # "create_issue" \/ calls[k + 1].n # calls[k].n }

\* the repository as it was when call k was made: the items present at the
\* start of the pass and those created by the calls before k
RepoAt(k) ==
    LET made == Cardinality({ j \in OkCalls(calls, "create_issue") : j < k })
    IN  SelectSeq(github, LAMBDA it : it.number <= Len(start.github0) + made)

\* the position in RepoAt(k) of the item returned to lookup k
ReturnedAt(k) == Earliest(ItemsWithLink(RepoAt(k), Url(sonar_issues[calls[k].n])))

C24_LinksAgree ==
    (Executing /\ pc \in {"create", "close", "reverse", "done"})
        => \A k \in SkipLookups :
               LET item == RepoAt(k)[ReturnedAt(k)]
               IN  ExtractSonarIssueKey(item.body.val) = Some(sonar_issues[calls[k].n].key)
                       => CallsFor(calls, "close_issue", item.number) = {}

\* C24 as stated: no item returned by a lookup is requested closed
C24_Original ==
    (Executing /\ pc \in {"create", "close", "reverse", "done"})
        => \A k \in SkipLookups :
               CallsFor(calls, "close_issue", RepoAt(k)[ReturnedAt(k)].number) = {}

\* the closure loop has closed an item and left alone the open item that a
\* lookup of the same pass returned and that carries the Finding's key
C24_Witness ==
    /\ Executing
    /\ pc = "close"
    /\ idx > Len(github_issues)
    /\ OkCalls(calls, "close_issue") # {}
    /\ \E k \in SkipLookups :
           LET item == RepoAt(k)[ReturnedAt(k)]
           IN  /\ ExtractSonarIssueKey(item.body.val) = Some(sonar_issues[calls[k].n].key)
               /\ item.state = "open"

-----------------------------------------------------------------------------
(* C25: an item created by forward sync for a Finding whose key is a        *)
(* non-empty string over [A-Za-z0-9_:-] is never requested closed during    *)
(* the same pass: the closure loop reads the Finding's key from its body    *)
(* and finds it among the fetched Findings.                                 *)

\* the number GitHub gave to the item made by create call j of the pass
NumberMadeBy(j) ==
    Len(start.github0) + Cardinality({ i \in OkCalls(calls, "create_issue") : i <= j })

C25_NewItemNotClosed ==
    Executing
        => \A j \in OkCalls(calls, "create_issue") :
               WellFormedKey(sonar_issues[calls[j].n].key)
                   => CallsFor(calls, "close_issue", NumberMadeBy(j)) = {}

\* C25 as stated: no item created in the pass is requested closed in it
C25_Original ==
    Executing
        => \A j \in OkCalls(calls, "create_issue") :
               CallsFor(calls, "close_issue", NumberMadeBy(j)) = {}

\* the closure loop has run over a list that holds an item created in the
\* pass, still open, and has closed an older item
C25_Witness ==
    /\ Executing
    /\ pc = "close"
    /\ idx > Len(github_issues)
    /\ OkCalls(calls, "close_issue") # {}
    /\ \E j \in OkCalls(calls, "create_issue") :
           /\ WellFormedKey(sonar_issues[calls[j].n].key)
           /\ \E p \in 1..Len(github_issues) :
                  /\ github_issues[p].number = NumberMadeBy(j)
                  /\ github_issues[p].state = "open"
                  /\ github_issues[p].body = calls[j].text

-----------------------------------------------------------------------------
(* C26: in every pass, a Finding that is processed while a closed labelled  *)
(* item (closed for whatever reason) holds its canonical URL is counted as  *)
(* skipped, unless the lookup itself fails: no create call is issued for    *)
(* it, and no step of the engine changes an item that is closed.            *)
ClosedLink(url) ==
    \E p \in ItemsWithLink(github, url) : github[p].state = "closed"

C26_ClosedLinkSkipped ==
    [][ /\ ( /\ pc = "create"
             /\ idx <= Len(sonar_issues)
             /\ ClosedLink(Url(sonar_issues[idx]))
             /\ pc' # "raised" )
           => /\ counts' = [counts EXCEPT !.skipped = @ + 1]
              /\ CallsOf(calls', "create_issue") = CallsOf(calls, "create_issue")
              /\ Len(calls') = Len(calls) + 1
              /\ calls'[Len(calls')].op = "issue_exists_with_sonar_link"
              /\ github' = github
       /\ \A p \in 1..Len(github) :
              github[p].state = "closed"
                  => github'[p + Len(github') - Len(github)] = github[p] ]_vars

\* in a second pass the first Finding has been skipped because of an item
\* closed as completed, no open item holding its URL
C26_Witness ==
    /\ pass = 2
    /\ prev.counts.skipped >= 1
    /\ pc = "create"
    /\ idx = 2
    /\ counts.skipped = 1
    /\ \A p \in ItemsWithLink(github, Url(sonar_issues[1])) :
           github[p].state = "closed" /\ github[p].state_reason = "completed"
    /\ ItemsWithLink(github, Url(sonar_issues[1])) # {}

-----------------------------------------------------------------------------
(* C27: for Findings f and g with different keys, both non-empty strings    *)
(* over [A-Za-z0-9_:-], the canonical URL of f is a substring of the body   *)
(* rendered for g only if g's message itself holds that URL.                *)
C27_LinkSpecific ==
    (pf.stage = "body" /\ WellFormedKey(pf.si.key))
        => \A k \in Keys :
               (WellFormedKey(k) /\ k # pf.si.key)
                   => LET url == Url(SonarIssue(k, <<>>, <<>>))
                      IN  Contains(url, pf.body) => Contains(url, pf.si.message)

\* C27 as stated: the URL of f is never a substring of the body of g
C27_Original ==
    pf.stage = "body"
        => \A k \in Keys :
               k # pf.si.key => ~Contains(Url(SonarIssue(k, <<>>, <<>>)), pf.body)

\* a body rendered for the key AA, of which the key A is a prefix, does not
\* hold the URL of A
C27_Witness ==
    /\ pf.stage = "body"
    /\ pf.si.key = <<"A", "A">>
    /\ pf.si.message = <<"m">>
    /\ Contains(Url(pf.si), pf.body)
    /\ ~Contains(Url(IssueA), pf.body)

-----------------------------------------------------------------------------
(* C28: within one execution pass at most one create call is issued per     *)
(* entry of the fetched Finding list and at most one close call and one     *)
(* mark-wont-fix call per labelled item; a Finding whose create call failed *)
(* is attempted again by the next execution pass whenever that pass         *)
(* processes it while no labelled item holds its URL.                       *)
NoRetry ==
    Executing
        => /\ \A i \in 1..Len(sonar_issues) :
                  Cardinality(CallsFor(calls, "create_issue", i)) <= 1
           /\ \A p \in 1..Len(github) :
                  /\ Cardinality(CallsFor(calls, "close_issue", github[p].number)) <= 1
                  /\ Cardinality(CallsFor(calls, "resolve_issue_as_wont_fix",
                                          github[p].number)) <= 1
           /\ \A k \in 1..Len(calls) :
                  calls[k].op \in {"close_issue", "resolve_issue_as_wont_fix"}
                      => \E p \in 1..Len(github) : github[p].number = calls[k].n

\* the create loop of an execution pass that follows an execution pass is over
NextPass == Executing /\ prev.ran /\ ~prev.dry_run /\ CreationDone

\* the keys of the Findings whose create call failed in the previous pass
FailedKeys ==
    { prev.sonar_issues[prev.calls[j].n].key : j \in FailedCalls(prev.calls, "create_issue") }

\* the lookup made for entry i of the fetched list
LookupOf(i) == CHOOSE k \in CallsFor(calls, "issue_exists_with_sonar_link", i) : TRUE

C28_NoRetryInPass ==
    /\ NoRetry
    /\ NextPass
           => \A i \in 1..Len(sonar_issues) :
                  ( /\ sonar_issues[i].key \in FailedKeys
                    /\ ItemsWithLink(RepoAt(LookupOf(i)), Url(sonar_issues[i])) = {} )
                      => CallsFor(calls, "create_issue", i) # {}

\* C28 as stated: the next pass attempts every Finding whose create failed
C28_Original ==
    /\ NoRetry
    /\ NextPass
           => \A key \in FailedKeys :
                  \E k \in CallsOf(calls, "create_issue") : sonar_issues[calls[k].n].key = key

\* a second execution pass has created the item of a Finding whose create
\* call failed in the first, which made no second call for it
C28_Witness ==
    /\ NextPass
    /\ pc = "done"
    /\ FailedKeys # {}
    /\ Cardinality(CallsOf(prev.calls, "create_issue")) = 1
    /\ \E k \in OkCalls(calls, "create_issue") : sonar_issues[calls[k].n].key \in FailedKeys

-----------------------------------------------------------------------------
(* C29: the list reverse sync works on was fetched after every close        *)
(* request of the same pass: it is the labelled list as the repository      *)
(* holds it, and an item that forward sync closed is in it in state closed. *)
LastFetch ==
    CHOOSE k \in OkCalls(calls, "get_issues_with_label") :
        \A j \in OkCalls(calls, "get_issues_with_label") : j <= k

C29_ReverseSeesClosures ==
    (Executing /\ pc = "reverse")
        => /\ Cardinality(OkCalls(calls, "get_issues_with_label")) = 2
           /\ \A k \in CallsOf(calls, "close_issue") : k < LastFetch
           /\ github_issues = GetIssuesWithLabel(github, <<"sonarcloud">>)
           /\ \A k \in OkCalls(calls, "close_issue") :
                  \E p \in 1..Len(github_issues) :
                      /\ github_issues[p].number = calls[k].n
                      /\ github_issues[p].state = "closed"

\* reverse sync is running over a list that holds an item closed by forward
\* sync of the same pass
C29_Witness ==
    /\ Executing
    /\ pc = "reverse"
    /\ idx = 1
    /\ \E k \in OkCalls(calls, "close_issue") :
           \E p \in 1..Len(start.github0) :
               start.github0[p].number = calls[k].n /\ start.github0[p].state = "open"

-----------------------------------------------------------------------------
(* C30: in an execution pass closed counts only close_issue calls that      *)
(* reported success and marked_wont_fix only resolve_issue_as_wont_fix      *)
(* calls that reported success.                                             *)
ClosedOnlyOnSuccess ==
    Executing => counts.closed <= Cardinality(OkCalls(calls, "close_issue"))

MarkedOnlyOnSuccess ==
    Executing
        => counts.marked_wont_fix
               <= Cardinality(OkCalls(calls, "resolve_issue_as_wont_fix"))

-----------------------------------------------------------------------------
(* C31: when an execution pass ends, resolve_issue_as_wont_fix has been     *)
(* called exactly once for every labelled item that is closed with reason   *)
(* not_planned and yields a key, also when an earlier pass already marked   *)
(* the Finding of that item.                                                *)
Propagated(item) ==
    /\ IsLabeled(item)
    /\ ClosedAsNotPlanned(item)
    /\ item.body.some
    /\ ExtractSonarIssueKey(item.body.val).some

C31_ReverseStateless ==
    (Executing /\ pc = "done")
        => \A p \in 1..Len(github) :
               Propagated(github[p])
                   => /\ Cardinality(CallsFor(calls, "resolve_issue_as_wont_fix",
                                              github[p].number)) = 1
                      /\ \A k \in CallsFor(calls, "resolve_issue_as_wont_fix",
                                            github[p].number) :
                             calls[k].text = ExtractSonarIssueKey(github[p].body.val).val

\* a second execution pass has called resolve for an item whose Finding the
\* first pass had marked, so that the project no longer held it
C31_Witness ==
    /\ NextPass
    /\ pc = "done"
    /\ \E k \in OkCalls(prev.calls, "resolve_issue_as_wont_fix") :
           /\ \E i \in 1..Len(prev.sonar0) : prev.sonar0[i].key = prev.calls[k].text
           /\ \A i \in 1..Len(start.sonar0) : start.sonar0[i].key # prev.calls[k].text
           /\ \E j \in CallsFor(calls, "resolve_issue_as_wont_fix", prev.calls[k].n) :
                  calls[j].text = prev.calls[k].text

-----------------------------------------------------------------------------
(* C32: after an execution pass in which every create call and every close  *)
(* call succeeded and no Finding was marked won't-fix, the pass that        *)
(* follows with no outside change issues no close_issue call and returns    *)
(* closed = 0.                                                              *)
AfterCleanClosure ==
    /\ pass >= 2
    /\ prev.ran
    /\ ~prev.dry_run
    /\ FailedCalls(prev.calls, "close_issue") = {}

NothingPending ==
    /\ FailedCalls(prev.calls, "create_issue") = {}
    /\ OkCalls(prev.calls, "resolve_issue_as_wont_fix") = {}

-----------------------------------------------------------------------------
(* C33: when the lookup of a Finding fails in forward sync, the pass is     *)
(* left raised with that lookup as its last call, every item created for an *)
(* earlier Finding of the pass is in the repository on top of the items the *)
(* pass started with, and the pass has issued no close_issue and no         *)
(* resolve_issue_as_wont_fix call.                                          *)
FailedLookups == FailedCalls(calls, "issue_exists_with_sonar_link")

\* the item that the successful create call j left in the repository
MadeBy(j) ==
    [ number |-> NumberMadeBy(j), title |-> calls[j].title,
      body |-> Some(calls[j].text), state |-> "open", state_reason |-> NullReason,
      labels |-> calls[j].labels ]

C33_NoRollback ==
    /\ [](pass >= 1 /\ FailedLookups # {}
             => /\ pc = "raised"
                /\ FailedLookups = {Len(calls)}
                /\ \A j \in OkCalls(calls, "create_issue") :
                       github[Len(github) - NumberMadeBy(j) + 1] = MadeBy(j)
                /\ SubSeq(github, Len(github) - Len(start.github0) + 1, Len(github))
                       = start.github0
                /\ Len(github)
                       = Len(start.github0) + Cardinality(OkCalls(calls, "create_issue"))
                /\ CallsOf(calls, "close_issue") = {}
                /\ CallsOf(calls, "resolve_issue_as_wont_fix") = {})
    /\ [][FailedLookups # {} => UNCHANGED <<pc, github, sonar, calls>>]_vars

\* the lookup of the second Finding failed and the item made for the first is
\* the newest item of the repository
C33_Witness ==
    /\ Executing
    /\ pc = "raised"
    /\ FailedLookups = {Len(calls)}
    /\ calls[Len(calls)].n = 2
    /\ \E j \in OkCalls(calls, "create_issue") :
           /\ calls[j].n = 1
           /\ github[1] = MadeBy(j)
           /\ Len(github) = Len(start.github0) + 1

-----------------------------------------------------------------------------
(* C34: once the create loop is over, created + skipped is at most the      *)
(* number of fetched Findings, equal to it in a preview pass and, in an     *)
(* execution pass, equal to it exactly when no create call failed; once the *)
(* closure loop is over, closed is at most the number of open items in the  *)
(* fetched labelled list; once the reverse loop is over, marked_wont_fix is *)
(* at most the number of fetched labelled items closed as not_planned.      *)
Handled == counts.created + counts.skipped

OpenFetched == { p \in 1..Len(github_issues) : github_issues[p].state = "open" }

NotPlannedFetched ==
    { p \in 1..Len(github_issues) :
        github_issues[p].state = "closed" /\ github_issues[p].state_reason = "not_planned" }

ReverseDone == (pc = "reverse" /\ idx > Len(github_issues)) \/ pc = "done"

C34_CounterBounds ==
    /\ CreationDone
           => /\ Handled <= Len(sonar_issues)
              /\ Previewing => Handled = Len(sonar_issues)
              /\ Executing
                     => (Handled = Len(sonar_issues)
                            <=> FailedCalls(calls, "create_issue") = {})
    /\ ClosureDone => counts.closed <= Cardinality(OpenFetched)
    /\ ReverseDone => counts.marked_wont_fix <= Cardinality(NotPlannedFetched)

\* an execution pass has returned after a failed create: one Finding of two is
\* counted, and both other counters are at their bounds above zero
C34_Witness ==
    /\ Executing
    /\ pc = "done"
    /\ Len(sonar_issues) = 2
    /\ FailedCalls(calls, "create_issue") # {}
    /\ Handled = 1
    /\ counts.closed >= 1
    /\ counts.marked_wont_fix = Cardinality(NotPlannedFetched)
    /\ counts.marked_wont_fix >= 1

-----------------------------------------------------------------------------
(* C35: in an execution pass the create calls are issued for the Findings   *)
(* in the order of the fetched list, every create call comes before every   *)
(* close call, and every close call before every mark-wont-fix call.        *)
Creates == CallsOf(calls, "create_issue")

Closes == CallsOf(calls, "close_issue")

Resolves == CallsOf(calls, "resolve_issue_as_wont_fix")

C35_CallOrder ==
    Executing
        => /\ \A k \in Creates :
                  /\ calls[k].n \in 1..Len(sonar_issues)
                  /\ calls[k].text = CreateGithubIssueBody(sonar_issues[calls[k].n])
                  /\ calls[k].title = sonar_issues[calls[k].n].message
           /\ \A k, l \in CallsOf(calls, "issue_exists_with_sonar_link") :
                  k < l => calls[k].n < calls[l].n
           /\ \A k, l \in Creates : k < l => calls[k].n < calls[l].n
           /\ \A k \in Creates : \A j \in Closes : k < j
           /\ \A j \in Closes : \A r \in Resolves : j < r
           /\ \A k \in Creates : \A r \in Resolves : k < r

\* a pass has returned after creating for two Findings with different bodies,
\* closing an item and marking a Finding
C35_Witness ==
    /\ Executing
    /\ pc = "done"
    /\ \E k, l \in Creates :
           /\ calls[k].n = 1 /\ calls[l].n = 2
           /\ calls[k].text # calls[l].text
    /\ Closes # {}
    /\ Resolves # {}

-----------------------------------------------------------------------------
(* C36: for a Finding with tags the rendered body is the fixed body with    *)
(* the tags line put in immediately before its three last lines (a blank    *)
(* line, '---' and the attribution sentence) and a blank line put in after  *)
(* the tags line, whatever the number of lines of the message: counted from *)
(* the end the lines are attribution, '---', blank, blank, tags line.       *)
FirstBreak(text) == Earliest({ c \in 1..Len(text) : text[c] = NL })

\* str.split("\n")
RECURSIVE SplitLines(_)
SplitLines(text) ==
    IF \A c \in 1..Len(text) : text[c] # NL
    THEN <<text>>
    ELSE <<SubSeq(text, 1, FirstBreak(text) - 1)>>
             \o SplitLines(SubSeq(text, FirstBreak(text) + 1, Len(text)))

RenderedLines == SplitLines(pf.body)

FixedLines == SplitLines(Join(BodyPartsFixed(pf.si), <<NL>>))

Tagged == pf.stage = "body" /\ pf.si.tags # <<>>

C36_TagsAnchor ==
    Tagged
        => LET n == Len(RenderedLines)
               m == Len(FixedLines)
           IN  /\ n = m + 2
               /\ SubSeq(RenderedLines, 1, n - 5) = SubSeq(FixedLines, 1, m - 3)
               /\ RenderedLines[n - 4] = TagsMark \o TagText(pf.si.tags)
               /\ RenderedLines[n - 3] = <<>>
               /\ SubSeq(RenderedLines, n - 2, n) = SubSeq(FixedLines, m - 2, m)
               /\ SubSeq(FixedLines, m - 2, m) = << <<>> >> \o FootLines

\* C36 as stated: the tags line is the line before '---' and the attribution
C36_Original ==
    Tagged
        => LET n == Len(RenderedLines)
           IN  /\ SubSeq(RenderedLines, n - 1, n) = FootLines
               /\ RenderedLines[n - 2] = TagsMark \o TagText(pf.si.tags)

\* a body of fifteen lines: a message of two lines and one tag
C36_Witness ==
    /\ Tagged
    /\ Len(pf.si.tags) = 1
    /\ Len(SplitLines(pf.si.message)) = 2
    /\ Len(RenderedLines) = 15
    /\ RenderedLines[11] = TagsMark \o pf.si.tags[1]

=============================================================================
